---------------------------- MODULE Spec2Model ----------------------------
(***************************************************************************)
(* A model of agentic_validator.py: one run of main() over a file tree.    *)
(*                                                                         *)
(* Strings are sequences of one-character strings, so that fnmatch, glob,  *)
(* splitlines, rstrip and substring search are computed character by       *)
(* character as the Python code computes them.  A path is the sequence of  *)
(* its parts (Path.parts), the first part of an absolute path being "/".   *)
(* An Optional[int] is <<>> (None) or <<n>>.                               *)
(***************************************************************************)
EXTENDS Integers, Sequences, FiniteSets, TLC

VARIABLES
    argv,         \* the command line, as argparse sees it
    fs,           \* the file system: [rootExists, tree], tree: rel path -> content
    pc,           \* main()'s position: "start", "scan", "tests", "report", "done"
    config,       \* CheckConfig, set by parse_args
    files,        \* sorted(iter_files(config)), the list main() iterates
    idx,          \* position of the scan loop in files
    issues,       \* main()'s accumulating issue list
    scanned,      \* history: the paths handed to check_file, in order
    perFile,      \* history: what each check_file call returned
    test_status,  \* Optional[int]
    pytestCalls,  \* history: number of run_pytest calls
    returncode,   \* history: Optional[int], what the pytest process exited with
    stdout,       \* what main() printed: a sequence of lines
    exitCode      \* Optional[int]: main()'s return value

vars == <<argv, fs, pc, config, files, idx, issues, scanned, perFile,
          test_status, pytestCalls, returncode, stdout, exitCode>>

----------------------------------------------------------------------------
(* Bounds of the model *)

\* a tree holds at most this many files
MaxFiles == 2
\* a file's text is at most this many chunks (see Chunks)
MaxChunks == 3
\* the largest end_lineno of a definition node
MaxEndLine == 4

----------------------------------------------------------------------------
(* Strings and their order *)

None == <<>>
Some(n) == <<n>>

\* the characters of the file names and patterns, in code-point order
CharOrder ==
    <<"*", ".", "/", "?", "_", "a", "b", "c", "d", "e", "f", "g", "h", "i",
      "j", "k", "l", "m", "n", "o", "p", "q", "r", "s", "t", "u", "v", "w",
      "x", "y", "z">>

Ord(c) == CHOOSE i \in 1..Len(CharOrder) : CharOrder[i] = c

\* Python's str.__lt__: lexicographic by code point, a proper prefix first
RECURSIVE StrLess(_, _)
StrLess(a, b) ==
    IF b = <<>> THEN FALSE
    ELSE IF a = <<>> THEN TRUE
    ELSE IF Head(a) = Head(b) THEN StrLess(Tail(a), Tail(b))
    ELSE Ord(Head(a)) < Ord(Head(b))

\* PurePath.__lt__: the parts compared as lists of strings
RECURSIVE PathLess(_, _)
PathLess(p, q) ==
    IF q = <<>> THEN FALSE
    ELSE IF p = <<>> THEN TRUE
    ELSE IF Head(p) = Head(q) THEN PathLess(Tail(p), Tail(q))
    ELSE StrLess(Head(p), Head(q))

\* sorted() of a list of paths: stable insertion, duplicates kept
RECURSIVE Insert(_, _)
Insert(p, s) ==
    IF s = <<>> THEN <<p>>
    ELSE IF PathLess(p, Head(s)) THEN <<p>> \o s
    ELSE <<Head(s)>> \o Insert(p, Tail(s))

RECURSIVE Sorted(_)
Sorted(s) ==
    IF s = <<>> THEN <<>>
    ELSE Insert(s[Len(s)], Sorted(SubSeq(s, 1, Len(s) - 1)))

\* sorted() of a set of strings
RECURSIVE SortedStrings(_)
SortedStrings(S) ==
    IF S = {} THEN <<>>
    ELSE LET m == CHOOSE x \in S : \A y \in S \ {x} : StrLess(x, y)
         IN  <<m>> \o SortedStrings(S \ {m})

\* "/".join(parts)
RECURSIVE Join(_)
Join(parts) ==
    IF parts = <<>> THEN <<>>
    ELSE IF Len(parts) = 1 THEN parts[1]
    ELSE parts[1] \o <<"/">> \o Join(Tail(parts))

\* pattern.split("/"), as pathlib cuts a glob pattern into its parts
RECURSIVE Split(_, _)
Split(s, cur) ==
    IF s = <<>> THEN <<cur>>
    ELSE IF Head(s) = "/" THEN <<cur>> \o Split(Tail(s), <<>>)
    ELSE Split(Tail(s), Append(cur, Head(s)))

\* str(path) of an absolute path
PathStr(p) == <<"/">> \o Join(Tail(p))

\* sub in s
Contains(s, sub) ==
    \E k \in 0..(Len(s) - Len(sub)) : SubSeq(s, k + 1, k + Len(sub)) = sub

\* a variant of RStrip that strips every trailing blank, tabs too
RECURSIVE RStripBlanks(_, _)
RStripBlanks(s, c) ==
    IF s # <<>> /\ s[Len(s)] \in {c, "\t"}
    THEN RStripBlanks(SubSeq(s, 1, Len(s) - 1), c)
    ELSE s

\* s.rstrip(c)
RECURSIVE RStrip(_, _)
RStrip(s, c) ==
    IF s # <<>> /\ s[Len(s)] = c THEN RStrip(SubSeq(s, 1, Len(s) - 1), c)
    ELSE s

\* text.splitlines(), for the line boundary "\n"
RECURSIVE SplitLines(_, _)
SplitLines(text, cur) ==
    IF text = <<>> THEN (IF cur = <<>> THEN <<>> ELSE <<cur>>)
    ELSE IF Head(text) = "\n" THEN <<cur>> \o SplitLines(Tail(text), <<>>)
    ELSE SplitLines(Tail(text), Append(cur, Head(text)))

\* fnmatch.fnmatch(s, pat) for patterns of literals, * and ?
RECURSIVE FnMatch(_, _)
FnMatch(s, pat) ==
    IF pat = <<>> THEN s = <<>>
    ELSE IF Head(pat) = "*"
         THEN FnMatch(s, Tail(pat)) \/ (s # <<>> /\ FnMatch(Tail(s), pat))
    ELSE /\ s # <<>>
         /\ Head(pat) = "?" \/ Head(pat) = Head(s)
         /\ FnMatch(Tail(s), Tail(pat))

----------------------------------------------------------------------------
(* Names of the model's world *)

DEFAULT_EXCLUDES ==
    { <<".", "g", "i", "t">>,
      <<".", "v", "e", "n", "v">>,
      <<"v", "e", "n", "v">>,
      <<"e", "n", "v">>,
      <<"_", "_", "p", "y", "c", "a", "c", "h", "e", "_", "_">>,
      <<"n", "o", "d", "e", "_", "m", "o", "d", "u", "l", "e", "s">>,
      <<"d", "i", "s", "t">>,
      <<"b", "u", "i", "l", "d">> }

DefaultInclude == << <<"*", "*", "/", "*", ".", "p", "y">> >>


\* str of a sequence of characters, as one TLA+ string
RECURSIVE Str(_)
Str(cs) == IF cs = <<>> THEN "" ELSE Head(cs) \o Str(Tail(cs))

----------------------------------------------------------------------------
(* parse_args *)

CheckConfig(root, include, exclude, max_line_length, max_function_length, run_tests) ==
    [root |-> root, include |-> include, exclude |-> exclude,
     max_line_length |-> max_line_length,
     max_function_length |-> max_function_length,
     run_tests |-> run_tests]

\* argparse's "append" action with a list default: the values given on the
\* command line are appended to a copy of the default list
ArgAppend(default, given) == default \o given

\* a.root is the resolved (absolute) root; a.include and a.exclude are the
\* values of the repeated --include and --exclude options, in order
parse_args(a) ==
    LET argsInclude == ArgAppend(DefaultInclude, a.include)
        argsExclude == ArgAppend(SortedStrings(DEFAULT_EXCLUDES), a.exclude)
        include == IF argsInclude # <<>> THEN argsInclude ELSE DefaultInclude
        exclude == IF argsExclude # <<>> THEN argsExclude ELSE <<>>
    IN  CheckConfig(a.root, include, exclude, a.max_line_length,
                    a.max_function_length, a.run_tests)

----------------------------------------------------------------------------
(* The file tree, _is_excluded and iter_files *)

\* what root.glob and root.rglob can meet under root: the files of the tree
\* and the directories above them (rel: the parts below root)
Entries(tree) ==
    {[rel |-> r, isFile |-> TRUE] : r \in DOMAIN tree}
    \cup UNION {{[rel |-> SubSeq(r, 1, k), isFile |-> FALSE] :
                    k \in 1..(Len(r) - 1)} : r \in DOMAIN tree}

\* pathlib's selectors: "**" matches any number of directories (none too),
\* any other pattern part matches one name by fnmatch
RECURSIVE GlobMatch(_, _, _)
GlobMatch(rel, isFile, pp) ==
    IF pp = <<>> THEN rel = <<>>
    ELSE IF Head(pp) = <<"*", "*">>
         THEN \/ GlobMatch(rel, isFile, Tail(pp))
              \/ /\ rel # <<>>
                 /\ Len(rel) > 1 \/ ~isFile
                 /\ GlobMatch(Tail(rel), isFile, pp)
    ELSE /\ rel # <<>>
         /\ FnMatch(Head(rel), Head(pp))
         /\ GlobMatch(Tail(rel), isFile, Tail(pp))

\* root.glob(pattern), as a set of entries
Glob(tree, pattern) ==
    {e \in Entries(tree) : GlobMatch(e.rel, e.isFile, Split(pattern, <<>>))}

InList(x, list) == \E i \in 1..Len(list) : list[i] = x

relative_to(path, root) == SubSeq(path, Len(root) + 1, Len(path))

\* a variant of _is_excluded without the test of the path's parts
_is_excluded_glob_only(path, cfg) ==
    LET rel == Join(relative_to(path, cfg.root))
    IN  \E j \in 1..Len(cfg.exclude) : FnMatch(rel, cfg.exclude[j])

_is_excluded(path, cfg) ==
    \/ \E i \in 1..Len(path) : InList(path[i], cfg.exclude)
    \/ LET rel == Join(relative_to(path, cfg.root))
       IN  \E j \in 1..Len(cfg.exclude) : FnMatch(rel, cfg.exclude[j])

\* a set of paths as a sequence, in path order
RECURSIVE InOrder(_)
InOrder(S) ==
    IF S = {} THEN <<>>
    ELSE LET m == CHOOSE x \in S : \A y \in S \ {x} : PathLess(x, y)
         IN  <<m>> \o InOrder(S \ {m})

\* what one pattern of the include list contributes to iter_files
YieldedFor(cfg, tree, pattern) ==
    InOrder({cfg.root \o e.rel :
               e \in {x \in Glob(tree, pattern) :
                        x.isFile /\ ~_is_excluded(cfg.root \o x.rel, cfg)}})

\* iter_files: the patterns in order, each pattern's matches in the order
\* the directory walk meets them (main() sorts the whole list afterwards)
RECURSIVE IterPatterns(_, _, _)
IterPatterns(cfg, tree, patterns) ==
    IF patterns = <<>> THEN <<>>
    ELSE YieldedFor(cfg, tree, Head(patterns))
         \o IterPatterns(cfg, tree, Tail(patterns))

iter_files(cfg, tree) == IterPatterns(cfg, tree, cfg.include)

----------------------------------------------------------------------------
(* check_file and check_function_lengths *)

Issue(path, line, kind, message) ==
    [path |-> path, line |-> line, kind |-> kind, message |-> message]

\* the issues of one line, in the order of the four tests
LineIssues(p, idx_, line, cfg) ==
    (IF Contains(line, <<"\t">>)
        THEN <<Issue(p, idx_, "style", "tab character")>> ELSE <<>>)
    \o (IF Len(line) > cfg.max_line_length
        THEN <<Issue(p, idx_, "style",
                     "line too long (" \o ToString(Len(line)) \o " > "
                       \o ToString(cfg.max_line_length) \o ")")>>
        ELSE <<>>)
    \o (IF RStrip(line, " ") # line
        THEN <<Issue(p, idx_, "style", "trailing whitespace")>> ELSE <<>>)
    \o (IF Contains(line, <<"T", "O", "D", "O">>)
           \/ Contains(line, <<"F", "I", "X", "M", "E">>)
        THEN <<Issue(p, idx_, "note", "TODO/FIXME present")>> ELSE <<>>)

\* the loop over enumerate(lines, start=1)
RECURSIVE ScanLines(_, _, _, _)
ScanLines(p, lines, k, cfg) ==
    IF k > Len(lines) THEN <<>>
    ELSE LineIssues(p, k, lines[k], cfg) \o ScanLines(p, lines, k + 1, cfg)

\* ast.walk: breadth first, every node once
RECURSIVE Walk(_)
Walk(todo) ==
    IF todo = <<>> THEN <<>>
    ELSE <<Head(todo)>> \o Walk(Tail(todo) \o Head(todo).body)

\* a variant of TooLong that reports a function of exactly max_len lines
TooLongInclusive(length, max_len) == length >= max_len

TooLong(length, max_len) == length > max_len

RECURSIVE FunctionIssues(_, _, _)
FunctionIssues(p, nodes, max_len) ==
    IF nodes = <<>> THEN <<>>
    ELSE LET node == Head(nodes)
             rest == FunctionIssues(p, Tail(nodes), max_len)
         IN  IF node.kind \in {"FunctionDef", "AsyncFunctionDef"}
             THEN IF node.end_lineno = None \/ node.lineno = None
                  THEN rest
                  ELSE LET length == node.end_lineno[1] - node.lineno[1] + 1
                       IN  IF TooLong(length, max_len)
                           THEN <<Issue(p, node.lineno[1], "maintainability",
                                        "function '" \o node.name
                                          \o "' too long ("
                                          \o ToString(length) \o " > "
                                          \o ToString(max_len) \o ")")>>
                                \o rest
                           ELSE rest
             ELSE rest

check_function_lengths(p, tree, max_len) ==
    FunctionIssues(p, Walk(<<tree>>), max_len)

\* exc.lineno or 0
LinenoOrZero(lineno) ==
    IF lineno = None \/ lineno = Some(0) THEN 0 ELSE lineno[1]

\* a variant of check_file that does not return after a SyntaxError
check_file_parse_falls_through(path, cfg, content) ==
    LET p == Str(PathStr(path))
    IN  IF ~content.decodable
        THEN <<Issue(p, 0, "encoding", "not utf-8")>>
        ELSE LET lineIssues ==
                     ScanLines(p, SplitLines(content.text, <<>>), 1, cfg)
                 lengths ==
                     check_function_lengths(p, content.parse.tree,
                                            cfg.max_function_length)
             IN  IF ~content.parse.ok
                 THEN Append(lineIssues,
                             Issue(p, LinenoOrZero(content.parse.lineno),
                                   "syntax", content.parse.msg))
                      \o lengths
                 ELSE lineIssues \o lengths

\* a variant of check_file that reports nothing for an undecodable file
check_file_decode_silent(path, cfg, content) ==
    LET p == Str(PathStr(path))
    IN  IF ~content.decodable
        THEN <<>>
        ELSE LET lineIssues ==
                     ScanLines(p, SplitLines(content.text, <<>>), 1, cfg)
             IN  IF ~content.parse.ok
                 THEN Append(lineIssues,
                             Issue(p, LinenoOrZero(content.parse.lineno),
                                   "syntax", content.parse.msg))
                 ELSE lineIssues
                      \o check_function_lengths(p, content.parse.tree,
                                                cfg.max_function_length)

\* content: [decodable, text, parse], parse: what ast.parse does with the
\* text: [ok, lineno, msg, tree]
check_file(path, cfg, content) ==
    LET p == Str(PathStr(path))
    IN  IF ~content.decodable
        THEN <<Issue(p, 0, "encoding", "not utf-8")>>
        ELSE LET lineIssues ==
                     ScanLines(p, SplitLines(content.text, <<>>), 1, cfg)
             IN  IF ~content.parse.ok
                 THEN Append(lineIssues,
                             Issue(p, LinenoOrZero(content.parse.lineno),
                                   "syntax", content.parse.msg))
                 ELSE lineIssues
                      \o check_function_lengths(p, content.parse.tree,
                                                cfg.max_function_length)

----------------------------------------------------------------------------
(* has_tests, run_pytest's result, render_markdown, the exit code *)

\* a variant of has_tests that looks for the tests directory only
has_tests_dir_only(tree) ==
    \E e \in Entries(tree) : e.rel = << <<"t", "e", "s", "t", "s">> >>

has_tests(tree) ==
    \/ \E e \in Entries(tree) : e.rel = << <<"t", "e", "s", "t", "s">> >>
    \/ \E e \in Glob(tree, <<"*", "*", "/", "t", "e", "s", "t", "_", "*",
                            ".", "p", "y">>) : e.isFile

\* run_pytest: the exit code of the process, as it is
run_pytest(result) == result

\* Issue.format
Format(i) ==
    IF i.line > 0
    THEN i.path \o ":" \o ToString(i.line) \o ": " \o i.kind \o ": "
           \o i.message
    ELSE i.path \o ": " \o i.kind \o ": " \o i.message

\* the report as its lines (main() prints them joined by "\n")
render_markdown(iss, status) ==
    LET head == <<"# Agentic Validator Report", "",
                  "- Issues: " \o ToString(Len(iss)),
                  IF status = None THEN "- Tests: not run"
                  ELSE "- Tests: exit code " \o ToString(status[1]),
                  "">>
    IN  IF iss = <<>> THEN Append(head, "No issues found.")
        ELSE head \o <<"## Issues">>
             \o [k \in 1..Len(iss) |-> "- " \o Format(iss[k])]

\* a variant of ExitStatus that lets a failed test run outrank the issues
ExitStatusTestsFirst(iss, status) ==
    IF status \notin {None, Some(0)} THEN status[1]
    ELSE IF iss # <<>> THEN 1
    ELSE 0

\* main()'s last three statements
ExitStatus(iss, status) ==
    IF iss # <<>> THEN 1
    ELSE IF status \notin {None, Some(0)} THEN status[1]
    ELSE 0

----------------------------------------------------------------------------
(* The worlds the runs start from *)

RootPlain == << <<"/">>, <<"s", "r", "v">>, <<"p", "r", "o", "j">> >>
RootUnderBuild ==
    << <<"/">>, <<"s", "r", "v">>, <<"b", "u", "i", "l", "d">>,
       <<"p", "r", "o", "j">> >>
Roots == {RootPlain, RootUnderBuild}

FileA == << <<"a", ".", "p", "y">> >>
\* the files a tree may hold, by their parts below root
Universe ==
    { FileA,
      << <<"b", "u", "i", "l", "d">>, <<"b", ".", "p", "y">> >>,
      << <<"p", "k", "g">>, <<"c", ".", "p", "y">> >>,
      << <<"n", ".", "t", "x", "t">> >>,
      << <<"t", "e", "s", "t", "_", "t", ".", "p", "y">> >>,
      << <<"t", "e", "s", "t", "s">>, <<"u", ".", "p", "y">> >> }

\* values of a repeated --include / --exclude
UserIncludes ==
    { <<>>,
      << <<"*", ".", "p", "y">> >>,
      << <<"*", "*", "/", "*">> >> }
UserExcludes ==
    { <<>>,
      << <<"p", "k", "g">> >>,
      << <<"*", ".", "t", "x", "t">> >> }

\* exit codes of the pytest process
PytestCodes == {0, 1, 2, 5}

Node(kind, name, lineno, end_lineno, body) ==
    [kind |-> kind, name |-> name, lineno |-> lineno,
     end_lineno |-> end_lineno, body |-> body]
Module(body) == Node("Module", "", None, None, body)

Parsed(tree) == [ok |-> TRUE, lineno |-> None, msg |-> "", tree |-> tree]
\* a SyntaxError; tree: the definitions a reader sees in the text, which
\* ast.parse never returns
SyntaxError(lineno, tree) ==
    [ok |-> FALSE, lineno |-> lineno, msg |-> "invalid syntax", tree |-> tree]

Content(decodable, text, parse) ==
    [decodable |-> decodable, text |-> text, parse |-> parse]

\* the contents of the files of the trees of Spec
SampleContents ==
    { Content(TRUE, <<"x", "\n">>, Parsed(Module(<<>>))),
      Content(TRUE, <<"x", " ", "\n">>, SyntaxError(Some(1), Module(<<>>))),
      Content(FALSE, <<>>, Parsed(Module(<<>>))) }

Trees ==
    UNION {[S -> SampleContents] :
             S \in {T \in SUBSET Universe : Cardinality(T) <= MaxFiles}}

\* texts: up to MaxChunks chunks, concatenated
Chunks ==
    { <<"T", "O", "D", "O">>, <<"F", "I", "X", "M", "E">>, <<"x">>, <<" ">>,
      <<"\t">>, <<"\n">> }
RECURSIVE Flatten(_)
Flatten(ss) == IF ss = <<>> THEN <<>> ELSE Head(ss) \o Flatten(Tail(ss))
Texts ==
    {Flatten(cs) : cs \in UNION {[1..n -> Chunks] : n \in 0..MaxChunks}}

\* definition nodes: resolvable line spans within 1..MaxEndLine, and the two
\* ways a line number can be missing
LineSpans ==
    {<<Some(l), Some(e)>> : l \in 1..MaxEndLine, e \in 1..MaxEndLine}
DefSpans ==
    {sp \in LineSpans : sp[1][1] <= sp[2][1]}
    \cup {<<None, Some(2)>>, <<Some(1), None>>}
DefKinds == {"FunctionDef", "AsyncFunctionDef", "ClassDef"}
Resolved(sp) == sp[1] # None /\ sp[2] # None
\* sp2 lies inside sp1, below its first line
Inside(sp2, sp1) ==
    Resolved(sp1) /\ Resolved(sp2)
        => sp2[1][1] > sp1[1][1] /\ sp2[2][1] <= sp1[2][1]
\* sp2 starts after sp1 ends
After(sp2, sp1) ==
    Resolved(sp1) /\ Resolved(sp2) => sp2[1][1] > sp1[2][1]

Leaf(kind, name, sp) == Node(kind, name, sp[1], sp[2], <<>>)
\* module bodies: one definition, one definition nested in another, or two
\* definitions one after the other
Bodies ==
    {<<Leaf(k, "f", sp)>> : k \in DefKinds, sp \in DefSpans}
    \cup {<<Node(q[1], "f", q[2][1], q[2][2], <<Leaf(q[3], "g", q[4])>>)>> :
            q \in {x \in DefKinds \X DefSpans \X DefKinds \X DefSpans :
                     Inside(x[4], x[2])}}
    \cup {<<Leaf(q[1], "f", q[2]), Leaf(q[3], "g", q[4])>> :
            q \in {x \in DefKinds \X DefSpans \X DefKinds \X DefSpans :
                     After(x[4], x[2])}}

Linenos == {None, Some(0), Some(1), Some(2)}

\* the contents of the one file of SpecFile: every text with a parse that
\* succeeds or fails, and every parse under a short text
RichContents ==
    {Content(d, t, p) :
        d \in BOOLEAN, t \in Texts,
        p \in {Parsed(Module(<<>>)), SyntaxError(None, Module(<<>>))}}
    \cup {Content(TRUE, <<"x", "\n">>, Parsed(Module(b))) : b \in Bodies}
    \cup {Content(TRUE, <<"x", "\n">>, SyntaxError(l, Module(b))) :
            l \in Linenos, b \in Bodies}

Argv(root, include, exclude, mll, mfl, run_tests) ==
    [root |-> root, include |-> include, exclude |-> exclude,
     max_line_length |-> mll, max_function_length |-> mfl,
     run_tests |-> run_tests]

NoConfig == CheckConfig(<<>>, <<>>, <<>>, 0, 0, FALSE)
EmptyTree == [r \in {} |-> Content(FALSE, <<>>, Parsed(Module(<<>>)))]

InitRun ==
    /\ pc = "start"
    /\ config = NoConfig
    /\ files = <<>>
    /\ idx = 1
    /\ issues = <<>>
    /\ scanned = <<>>
    /\ perFile = <<>>
    /\ test_status = None
    /\ pytestCalls = 0
    /\ returncode = None
    /\ stdout = <<>>
    /\ exitCode = None

\* a run of main() over a tree of sample files, for every command line
Init ==
    /\ argv \in {Argv(r, i, e, 3, 2, t) :
                   r \in Roots, i \in UserIncludes, e \in UserExcludes,
                   t \in BOOLEAN}
    /\ fs \in {[rootExists |-> TRUE, tree |-> t] : t \in Trees}
              \cup {[rootExists |-> FALSE, tree |-> EmptyTree]}
    /\ InitRun

\* a run of main() over a tree of one file, a.py, for every content
InitFile ==
    /\ argv \in {Argv(RootPlain, <<>>, <<>>, mll, mfl, FALSE) :
                   mll \in {4, 5}, mfl \in {2, 3}}
    /\ fs \in {[rootExists |-> TRUE, tree |-> [r \in {FileA} |-> c]] :
                 c \in RichContents}
    /\ InitRun

----------------------------------------------------------------------------
(* main *)

\* parse_args, the test of the root, and the sorted file list
Start ==
    /\ pc = "start"
    /\ config' = parse_args(argv)
    /\ IF ~fs.rootExists
       THEN /\ stdout' = <<"Root does not exist: "
                             \o Str(PathStr(config'.root))>>
            /\ exitCode' = Some(2)
            /\ pc' = "done"
            /\ files' = files
       ELSE /\ files' = Sorted(iter_files(config', fs.tree))
            /\ pc' = "scan"
            /\ UNCHANGED <<stdout, exitCode>>
    /\ UNCHANGED <<argv, fs, idx, issues, scanned, perFile, test_status,
                   pytestCalls, returncode>>

\* one turn of the loop: issues.extend(check_file(path, config))
Scan ==
    /\ pc = "scan"
    /\ idx <= Len(files)
    /\ LET path == files[idx]
           found == check_file(path, config,
                               fs.tree[relative_to(path, config.root)])
       IN  /\ issues' = issues \o found
           /\ scanned' = Append(scanned, path)
           /\ perFile' = Append(perFile, found)
    /\ idx' = idx + 1
    /\ UNCHANGED <<argv, fs, pc, config, files, test_status, pytestCalls,
                   returncode, stdout, exitCode>>

\* after the loop: the test status
RunTests ==
    /\ pc = "scan"
    /\ idx > Len(files)
    /\ IF config.run_tests
       THEN IF has_tests(fs.tree)
            THEN /\ \E code \in PytestCodes : returncode' = Some(code)
                 /\ test_status' = run_pytest(returncode')
                 /\ pytestCalls' = pytestCalls + 1
            ELSE /\ test_status' = Some(0)
                 /\ UNCHANGED <<pytestCalls, returncode>>
       ELSE UNCHANGED <<test_status, pytestCalls, returncode>>
    /\ pc' = "report"
    /\ UNCHANGED <<argv, fs, config, files, idx, issues, scanned, perFile,
                   stdout, exitCode>>

\* the report is printed and main() returns
Finish ==
    /\ pc = "report"
    /\ stdout' = render_markdown(issues, test_status)
    /\ exitCode' = Some(ExitStatus(issues, test_status))
    /\ pc' = "done"
    /\ UNCHANGED <<argv, fs, config, files, idx, issues, scanned, perFile,
                   test_status, pytestCalls, returncode>>

Next == Start \/ Scan \/ RunTests \/ Finish

Spec == Init /\ [][Next]_vars
SpecFile == InitFile /\ [][Next]_vars

----------------------------------------------------------------------------
(* What the claims speak of *)

\* the content of a scanned file
ContentOf(path) == fs.tree[relative_to(path, argv.root)]

\* how often an issue occurs in a list of issues
CountOf(found, i) == Cardinality({k \in 1..Len(found) : found[k] = i})

\* how many issues of a kind a list holds, on a line or on any line
KindCount(found, kind) ==
    Cardinality({k \in 1..Len(found) : found[k].kind = kind})
KindCountAt(found, kind, line) ==
    Cardinality({k \in 1..Len(found) :
                   found[k].kind = kind /\ found[k].line = line})

Bit(b) == IF b THEN 1 ELSE 0

HasTab(line) == \E k \in 1..Len(line) : line[k] = "\t"
EndsWithSpace(line) == line # <<>> /\ line[Len(line)] = " "
HasMarker(line) ==
    \/ \E k \in 1..Len(line) :
          k + 3 <= Len(line) /\ line[k] = "T" /\ line[k + 1] = "O"
          /\ line[k + 2] = "D" /\ line[k + 3] = "O"
    \/ \E k \in 1..Len(line) :
          k + 4 <= Len(line) /\ line[k] = "F" /\ line[k + 1] = "I"
          /\ line[k + 2] = "X" /\ line[k + 3] = "M" /\ line[k + 4] = "E"

\* the definition nodes of a parsed module: its body and what is nested
DefNodes(tree) ==
    {tree.body[k] : k \in 1..Len(tree.body)}
    \cup UNION {{tree.body[k].body[j] : j \in 1..Len(tree.body[k].body)} :
                  k \in 1..Len(tree.body)}
IsFunction(node) ==
    /\ node.kind \in {"FunctionDef", "AsyncFunctionDef"}
    /\ node.lineno # None
    /\ node.end_lineno # None
Span(node) == node.end_lineno[1] - node.lineno[1] + 1

\* a file below root, by its parts below root, lies beneath a directory
\* whose name is an entry of the exclude list
BeneathExcluded(rel) ==
    \E k \in 1..(Len(rel) - 1) : InList(rel[k], config.exclude)

\* tests exist under root: something is named tests at the top, or a file
\* is named test_<...>.py
TestsDetected ==
    \E r \in DOMAIN fs.tree :
        \/ r[1] = <<"t", "e", "s", "t", "s">>
        \/ LET name == r[Len(r)]
           IN  /\ Len(name) >= 8
               /\ SubSeq(name, 1, 5) = <<"t", "e", "s", "t", "_">>
               /\ SubSeq(name, Len(name) - 2, Len(name)) = <<".", "p", "y">>

Returned == pc = "done" /\ fs.rootExists

----------------------------------------------------------------------------
(* The claims *)

\* C1: when main() has returned, its exit code is 2 if the root does not
\* exist; otherwise 1 if the issue list is non-empty, whatever the tests
\* did; otherwise the test status if there is one and it is not 0;
\* otherwise 0.
C1_ExitCodeRule ==
    pc = "done" =>
        exitCode =
            Some(IF ~fs.rootExists THEN 2
                 ELSE IF Len(issues) > 0 THEN 1
                 ELSE IF test_status # None /\ test_status[1] # 0
                      THEN test_status[1]
                 ELSE 0)

\* issues were found and pytest failed with another code: the exit code is 1
C1_Witness ==
    /\ Returned
    /\ Len(issues) > 0
    /\ test_status = Some(5)
    /\ exitCode = Some(1)

\* C2: main() returns 2 only when the root directory does not exist.
C2_ExitTwoOnlyForMissingRoot ==
    exitCode = Some(2) => ~fs.rootExists

\* C3: a decodable file that fails to parse gets exactly one syntax issue,
\* at the parser's line number or at 0 when there is none, and no
\* maintainability issue, whatever definitions its text shows.
C3_ParseFailureShortCircuits ==
    \A i \in 1..Len(scanned) :
        LET c == ContentOf(scanned[i])
        IN  c.decodable /\ ~c.parse.ok =>
                /\ KindCount(perFile[i], "syntax") = 1
                /\ KindCountAt(perFile[i], "syntax",
                               IF c.parse.lineno = None THEN 0
                               ELSE c.parse.lineno[1]) = 1
                /\ KindCount(perFile[i], "maintainability") = 0

\* a file that fails to parse at line 2 and shows a function longer than
\* the maximum has been scanned
C3_Witness ==
    \E i \in 1..Len(scanned) :
        LET c == ContentOf(scanned[i])
        IN  /\ c.decodable /\ ~c.parse.ok
            /\ c.parse.lineno = Some(2)
            /\ \E n \in DefNodes(c.parse.tree) :
                  IsFunction(n) /\ Span(n) > argv.max_function_length
            /\ KindCountAt(perFile[i], "syntax", 2) = 1

\* C4: a file that cannot be decoded gets exactly one issue, of kind
\* encoding at line 0, and the run goes on: every file of the list is
\* handed to check_file, in order, before the tests and the report.
C4_DecodeFailureIsOneIssue ==
    /\ \A i \in 1..Len(scanned) :
          ~ContentOf(scanned[i]).decodable =>
              /\ Len(perFile[i]) = 1
              /\ perFile[i][1].line = 0
              /\ perFile[i][1].kind = "encoding"
    /\ pc = "scan" => scanned = SubSeq(files, 1, idx - 1)
    /\ pc = "report" \/ Returned => scanned = files

\* an undecodable file was scanned first and a file with issues after it
C4_Witness ==
    /\ Returned
    /\ Len(scanned) >= 2
    /\ ~ContentOf(scanned[1]).decodable
    /\ ContentOf(scanned[2]).decodable
    /\ Len(perFile[2]) > 0
    /\ Len(issues) = 1 + Len(perFile[2])

\* C5: in a parsed file, a function definition (plain or async, nested or
\* not) with both line numbers gets exactly one maintainability issue,
\* naming its span and the maximum, if its span end - start + 1 exceeds
\* max_function_length, and none otherwise; nothing else gets one.
C5_FunctionLengthThreshold ==
    \A i \in 1..Len(scanned) :
        LET c == ContentOf(scanned[i])
            max == argv.max_function_length
            funcs == {n \in DefNodes(c.parse.tree) : IsFunction(n)}
        IN  c.decodable /\ c.parse.ok =>
                /\ \A n \in funcs :
                      CountOf(perFile[i],
                              Issue(Str(PathStr(scanned[i])), n.lineno[1],
                                    "maintainability",
                                    "function '" \o n.name \o "' too long ("
                                      \o ToString(Span(n)) \o " > "
                                      \o ToString(max) \o ")"))
                        = Bit(Span(n) > max)
                /\ KindCount(perFile[i], "maintainability")
                     = Cardinality({n \in funcs : Span(n) > max})

\* a function of max + 1 lines is reported and, nested in it, an async
\* function of exactly max lines is not
C5_Witness ==
    \E i \in 1..Len(scanned) :
        LET c == ContentOf(scanned[i])
            max == argv.max_function_length
        IN  /\ c.decodable /\ c.parse.ok
            /\ Len(c.parse.tree.body) = 1
            /\ LET f == c.parse.tree.body[1]
               IN  /\ IsFunction(f) /\ Span(f) = max + 1
                   /\ Len(f.body) = 1
                   /\ f.body[1].kind = "AsyncFunctionDef"
                   /\ IsFunction(f.body[1]) /\ Span(f.body[1]) = max
            /\ KindCount(perFile[i], "maintainability") = 1

\* C6: on every line of a decodable file each of the four rules is decided
\* on its own: a tab issue iff the line holds a tab, a too-long issue with
\* the two lengths iff it is longer than max_line_length, a trailing
\* whitespace issue iff it ends with a space, a note iff it holds TODO or
\* FIXME; and the line gets no other style or note issue.
C6_LineRulesIndependent ==
    \A i \in 1..Len(scanned) :
        LET c == ContentOf(scanned[i])
            p == Str(PathStr(scanned[i]))
            lines == SplitLines(c.text, <<>>)
            max == argv.max_line_length
        IN  c.decodable =>
                /\ \A n \in 1..Len(lines) :
                      /\ CountOf(perFile[i],
                                 Issue(p, n, "style", "tab character"))
                           = Bit(HasTab(lines[n]))
                      /\ CountOf(perFile[i],
                                 Issue(p, n, "style",
                                       "line too long ("
                                         \o ToString(Len(lines[n])) \o " > "
                                         \o ToString(max) \o ")"))
                           = Bit(Len(lines[n]) > max)
                      /\ CountOf(perFile[i],
                                 Issue(p, n, "style", "trailing whitespace"))
                           = Bit(EndsWithSpace(lines[n]))
                      /\ CountOf(perFile[i],
                                 Issue(p, n, "note", "TODO/FIXME present"))
                           = Bit(HasMarker(lines[n]))
                      /\ KindCountAt(perFile[i], "style", n)
                           = Bit(HasTab(lines[n]))
                             + Bit(Len(lines[n]) > max)
                             + Bit(EndsWithSpace(lines[n]))
                      /\ KindCountAt(perFile[i], "note", n)
                           = Bit(HasMarker(lines[n]))
                /\ \A k \in 1..Len(perFile[i]) :
                      perFile[i][k].kind \in {"style", "note"}
                          => perFile[i][k].line \in 1..Len(lines)

\* a line that is too long, holds a tab and FIXME and ends with a space
\* got all four issues
C6_Witness ==
    \E i \in 1..Len(scanned) :
        LET c == ContentOf(scanned[i])
            lines == SplitLines(c.text, <<>>)
        IN  /\ c.decodable
            /\ Len(lines) >= 1
            /\ HasTab(lines[1]) /\ EndsWithSpace(lines[1])
            /\ HasMarker(lines[1])
            /\ Len(lines[1]) > argv.max_line_length
            /\ KindCountAt(perFile[i], "style", 1) = 3
            /\ KindCountAt(perFile[i], "note", 1) = 1

\* C7: a file beneath a directory named in the exclude list is never in the
\* file list, never handed to check_file and never the path of an issue,
\* whatever the include patterns.
C7_ExcludedDirectoryNeverScanned ==
    \A r \in DOMAIN fs.tree :
        BeneathExcluded(r) =>
            LET path == argv.root \o r
            IN  /\ ~InList(path, files)
                /\ ~InList(path, scanned)
                /\ \A k \in 1..Len(issues) :
                      issues[k].path # Str(PathStr(path))

\* a run with --include **/* over a tree with build/b.py has returned, and
\* it scanned another file
C7_Witness ==
    /\ Returned
    /\ argv.root = RootPlain
    /\ argv.include = << <<"*", "*", "/", "*">> >>
    /\ Len(scanned) > 0
    /\ \E r \in DOMAIN fs.tree :
          /\ r[1] = <<"b", "u", "i", "l", "d">>
          /\ BeneathExcluded(r)
          /\ \E e \in Glob(fs.tree, argv.include[1]) : e.rel = r

\* C8: pytest is run at most once, only with --run-tests and tests under
\* root, and only after every file was scanned.  Without --run-tests the
\* status is absent, the report says "not run" and the exit code follows
\* the issue list alone; with --run-tests and no tests the status is 0
\* and nothing was run; with tests it is the exit code of pytest.
C8_TestRunnerUse ==
    /\ pytestCalls <= 1
    /\ pytestCalls = 1 =>
          /\ argv.run_tests /\ TestsDetected
          /\ pc \in {"report", "done"}
          /\ scanned = files
    /\ Returned =>
          /\ ~argv.run_tests =>
                /\ pytestCalls = 0
                /\ test_status = None
                /\ stdout[4] = "- Tests: not run"
                /\ exitCode = Some(Bit(Len(issues) > 0))
          /\ argv.run_tests /\ ~TestsDetected =>
                /\ pytestCalls = 0
                /\ test_status = Some(0)
                /\ stdout[4] = "- Tests: exit code 0"
          /\ argv.run_tests /\ TestsDetected =>
                /\ pytestCalls = 1
                /\ returncode # None
                /\ test_status = returncode
                /\ stdout[4]
                     = "- Tests: exit code " \o ToString(returncode[1])

\* files were scanned, then pytest ran once and exited with 1
C8_Witness ==
    /\ Returned
    /\ argv.run_tests
    /\ Len(scanned) >= 2
    /\ pytestCalls = 1
    /\ returncode = Some(1)
    /\ test_status = Some(1)

\* C9: no path is handed to check_file twice in a run.
C9_EachFileScannedOnce ==
    \A i, j \in 1..Len(scanned) : i # j => scanned[i] # scanned[j]

\* C10: a file that an include pattern matches, with no part below root in
\* the exclude list and no exclude glob matching its path below root, is
\* scanned, wherever root lies.
C10_ExclusionIsRootRelative ==
    pc = "report" \/ Returned =>
        \A r \in DOMAIN fs.tree :
            LET included ==
                    \E k \in 1..Len(config.include) :
                        GlobMatch(r, TRUE, Split(config.include[k], <<>>))
                noPart == \A k \in 1..Len(r) : ~InList(r[k], config.exclude)
                noGlob ==
                    \A k \in 1..Len(config.exclude) :
                        ~FnMatch(Join(r), config.exclude[k])
            IN  (included /\ noPart /\ noGlob)
                    => InList(argv.root \o r, scanned)

============================================================================
